---------------------------- MODULE Spec2Model ----------------------------
(***************************************************************************)
(* Model of the youth-employment platform's two pieces with design         *)
(* content: the backend bootstrap (src/backend/server.js and its revised   *)
(* variant src/unnamed/part_000) and the browser API client                *)
(* (src/frontend/src/utils/api.js: interceptors, auth helpers, retry).     *)
(*                                                                         *)
(* The specifications share the variables: SpecServer (bootstrap, health   *)
(* endpoint, CORS, signals), SpecClient (storage, default header,          *)
(* interceptors, auth helpers), SpecSession (requests in flight across    *)
(* credential changes and page loads), SpecStorage (the readers on         *)
(* arbitrary storage content) and                                          *)
(* SpecRetry (apiWithRetry).                                               *)
(***************************************************************************)
EXTENDS Integers, Sequences, FiniteSets, TLC

VARIABLES
    \* ---- backend process ----
    entry,          \* which server module the process runs
    spc,            \* position of the bootstrap code
    readyState,     \* mongoose.connection.readyState (0,1,2,3)
    connectCalls,   \* number of mongoose.connect invocations
    connectOutcome, \* "none" | "pending" | "resolved" | "rejected"
    connectErr,     \* error.name of the rejected connect ("" when none)
    listenCalls,    \* number of app.listen invocations
    listenPending,  \* connectOutcome at the moment app.listen was invoked
    listening,      \* the HTTP server accepts connections
    sigint,         \* "none" | "closing" | "closed"  (SIGINT handler position)
    proc,           \* [exited, code, cause]
    lastHealth,     \* last answer of GET /api/health
    healthServed,   \* number of health requests answered
    lastCors,       \* last request seen by the cors middleware and its CORS headers
    \* ---- browser client (api.js) ----
    storage,        \* localStorage: key -> string, keys among "token", "user"
    headers,        \* api.defaults.headers.common: name -> string
    pathname,       \* window.location.pathname, a sequence of characters
    hist,           \* the last finished operation of the client (<<>> before the first)
    inflight,       \* configs of the requests sent and not yet answered
    \* ---- one call of apiWithRetry(apiCall, maxRetries, delay) ----
    rpc,            \* "start" | "test" | "call" | "sleep" | "done"
    op,             \* behaviour of apiCall: [always, k]
    maxRetries,     \* second argument
    delay,          \* third argument (milliseconds)
    attempt,        \* the loop variable
    calls,          \* invocations of apiCall so far
    rlog,           \* calls, failures, awaited delays and the success, in order
    elapsed,        \* milliseconds spent in awaited timers
    result          \* how the returned promise settled

svars == <<entry, spc, readyState, connectCalls, connectOutcome, connectErr,
           listenCalls, listenPending, listening, sigint, proc, lastHealth,
           healthServed, lastCors>>

cvars == <<storage, headers, pathname, hist, inflight>>

rvars == <<rpc, op, maxRetries, delay, attempt, calls, rlog, elapsed, result>>

vars == <<svars, cvars, rvars>>

-----------------------------------------------------------------------------
(* Bounds *)
MaxHealth == 2      \* health requests answered per run
MaxRetries == 4     \* largest maxRetries argument tried
MaxFailures == 4    \* largest number of failures before apiCall succeeds
MaxInFlight == 1    \* requests awaiting their response at the same time

-----------------------------------------------------------------------------
(* Backend: src/unnamed/part_000 and src/backend/server.js *)

Entries == {"part_000", "server.js"}

\* error.name values the catch block of connectDB distinguishes
ConnectErrorNames == {"MongooseServerSelectionError", "MongoNetworkError", "Error"}

Running == [exited |-> FALSE, code |-> 0, cause |-> "none"]
Exit(c, why) == [exited |-> TRUE, code |-> c, cause |-> why]

NoHealth == [status |-> 0, database |-> "none", seen |-> 0]

\* part_000:79 / part_000:68
DatabaseField(rs) == IF rs = 1 THEN "Connected" ELSE "Disconnected"

\* The JSON body of GET /api/health as far as the database is concerned.
\* server.js answers without a database field.
HealthResponse(e, rs) ==
    IF e = "part_000"
    THEN [status |-> 200, database |-> DatabaseField(rs), seen |-> rs]
    ELSE [status |-> 200, database |-> "absent", seen |-> rs]

\* ---- cors({ origin: [...], credentials, methods, ... }) --------------------
\* part_000:37-42 and server.js:26-31 (the Vercel entry of server.js ends in "/")
AllowedOrigins(e) ==
    IF e = "part_000"
    THEN { "http://localhost:3000",
           "http://localhost:5173",
           "https://mern-final-project-atsienoclaire.vercel.app",
           "https://mern-final-project-atsienoclaire-2.onrender.com" }
    ELSE { "http://localhost:3000",
           "http://localhost:5173",
           "https://mern-final-project-atsienoclaire.vercel.app/",
           "https://mern-final-project-atsienoclaire-2.onrender.com" }

\* methods: ['GET', 'POST', 'PUT', 'DELETE', 'OPTIONS']
AllowedMethods == <<"GET", "POST", "PUT", "DELETE", "OPTIONS">>

\* the cors middleware compares the Origin header with each listed string
IsOriginAllowed(origin, allowed) == origin \in allowed

\* the CORS headers of the answer: Access-Control-Allow-Origin carries the
\* request's origin when it is listed and is not set otherwise (""); the
\* methods are announced on a preflight only
CorsResponse(e, origin, method) ==
    [origin |-> origin,
     method |-> method,
     allowOrigin |-> IF IsOriginAllowed(origin, AllowedOrigins(e)) THEN origin ELSE "",
     allowMethods |-> IF method = "OPTIONS" THEN AllowedMethods ELSE <<>>]

NoCors == [origin |-> "", method |-> "", allowOrigin |-> "", allowMethods |-> <<>>]

\* Origin headers of incoming requests ("" when the header is missing)
RequestOrigins ==
    { "http://localhost:3000",
      "http://localhost:5173",
      "https://mern-final-project-atsienoclaire.vercel.app",
      "https://mern-final-project-atsienoclaire-2.onrender.com",
      "https://mern-final-project-atsienoclaire.vercel.app/",
      "http://localhost:3001",
      "https://evil.example",
      "" }

RequestMethods == {"GET", "OPTIONS"}

InitServer ==
    /\ entry \in Entries
    /\ spc = "init"
    /\ readyState = 0
    /\ connectCalls = 0
    /\ connectOutcome = "none"
    /\ connectErr = ""
    /\ listenCalls = 0
    /\ listenPending = "none"
    /\ listening = FALSE
    /\ sigint = "none"
    /\ proc = Running
    /\ lastHealth = NoHealth
    /\ healthServed = 0
    /\ lastCors = NoCors

\* part_000: startServer() -> connectDB() -> await mongoose.connect(...)
StartServer ==
    /\ ~proc.exited /\ entry = "part_000" /\ spc = "init"
    /\ spc' = "connecting"
    /\ readyState' = 2
    /\ connectCalls' = connectCalls + 1
    /\ connectOutcome' = "pending"
    /\ UNCHANGED <<cvars, rvars, lastCors, entry, connectErr, listenCalls, listenPending, listening,
                   sigint, proc, lastHealth, healthServed>>

\* part_000: the awaited connect resolves; connectDB returns conn
ConnectDBResolved ==
    /\ ~proc.exited /\ entry = "part_000" /\ spc = "connecting"
    /\ connectOutcome = "pending"
    /\ connectOutcome' = "resolved"
    /\ readyState' = 1
    /\ spc' = "listen"
    /\ UNCHANGED <<cvars, rvars, lastCors, entry, connectCalls, connectErr, listenCalls, listenPending,
                   listening, sigint, proc, lastHealth, healthServed>>

\* part_000: the awaited connect rejects; the catch block logs and returns null
ConnectDBRejected ==
    /\ ~proc.exited /\ entry = "part_000" /\ spc = "connecting"
    /\ connectOutcome = "pending"
    /\ \E n \in ConnectErrorNames : connectErr' = n
    /\ connectOutcome' = "rejected"
    /\ readyState' = 0
    /\ spc' = "listen"
    /\ UNCHANGED <<cvars, rvars, lastCors, entry, connectCalls, listenCalls, listenPending, listening,
                   sigint, proc, lastHealth, healthServed>>

\* server.js: module evaluation calls mongoose.connect (not awaited) and
\* goes straight on to app.listen
ModuleConnect ==
    /\ ~proc.exited /\ entry = "server.js" /\ spc = "init"
    /\ spc' = "listen"
    /\ readyState' = 2
    /\ connectCalls' = connectCalls + 1
    /\ connectOutcome' = "pending"
    /\ UNCHANGED <<cvars, rvars, lastCors, entry, connectErr, listenCalls, listenPending, listening,
                   sigint, proc, lastHealth, healthServed>>

\* server.js: .then(() => console.log(...))
ModuleConnectResolved ==
    /\ ~proc.exited /\ entry = "server.js" /\ connectOutcome = "pending"
    /\ spc # "listen"
    /\ connectOutcome' = "resolved"
    /\ readyState' = 1
    /\ UNCHANGED <<cvars, rvars, lastCors, entry, spc, connectCalls, connectErr, listenCalls,
                   listenPending, listening, sigint, proc, lastHealth,
                   healthServed>>

\* server.js: .catch(err => { console.error(...); process.exit(1); })
ModuleConnectRejected ==
    /\ ~proc.exited /\ entry = "server.js" /\ connectOutcome = "pending"
    /\ spc # "listen"
    /\ \E n \in ConnectErrorNames : connectErr' = n
    /\ connectOutcome' = "rejected"
    /\ readyState' = 0
    /\ proc' = Exit(1, "dbfail")
    /\ UNCHANGED <<cvars, rvars, lastCors, entry, spc, connectCalls, listenCalls, listenPending,
                   listening, sigint, lastHealth, healthServed>>

\* app.listen(PORT, callback) is invoked and returns; the socket is not bound yet
AppListen ==
    /\ ~proc.exited /\ spc = "listen"
    /\ spc' = "binding"
    /\ listenCalls' = listenCalls + 1
    /\ listenPending' = connectOutcome
    /\ UNCHANGED <<cvars, rvars, lastCors, entry, readyState, connectCalls, connectOutcome, connectErr,
                   listening, sigint, proc, lastHealth, healthServed>>

\* app.listen throws: part_000 startServer().catch -> process.exit(1);
\* server.js has no handler, the uncaught exception ends the process with code 1
ListenThrows ==
    /\ ~proc.exited /\ spc = "listen"
    /\ listenCalls' = listenCalls + 1
    /\ listenPending' = connectOutcome
    /\ proc' = Exit(1, "listen")
    /\ UNCHANGED <<cvars, rvars, lastCors, entry, spc, readyState, connectCalls, connectOutcome,
                   connectErr, listening, sigint, lastHealth, healthServed>>

\* the 'listening' event: the callback of app.listen runs
Bound ==
    /\ ~proc.exited /\ spc = "binding"
    /\ spc' = "running"
    /\ listening' = TRUE
    /\ UNCHANGED <<cvars, rvars, lastCors, entry, readyState, connectCalls, connectOutcome, connectErr,
                   listenCalls, listenPending, sigint, proc, lastHealth,
                   healthServed>>

\* the server emits 'error' (port in use); nobody listens for it
BindError ==
    /\ ~proc.exited /\ spc = "binding"
    /\ proc' = Exit(1, "listen")
    /\ UNCHANGED <<cvars, rvars, lastCors, entry, spc, readyState, connectCalls, connectOutcome,
                   connectErr, listenCalls, listenPending, listening, sigint,
                   lastHealth, healthServed>>

\* mongoose.connection 'disconnected' notification, at any time once connected
DbDisconnected ==
    /\ ~proc.exited /\ readyState = 1
    /\ readyState' = 0
    /\ UNCHANGED <<cvars, rvars, lastCors, entry, spc, connectCalls, connectOutcome, connectErr,
                   listenCalls, listenPending, listening, sigint, proc,
                   lastHealth, healthServed>>

\* the driver's own reconnect after an established connection was lost
DbReconnected ==
    /\ ~proc.exited /\ readyState = 0 /\ connectOutcome = "resolved"
    /\ sigint = "none"
    /\ readyState' = 1
    /\ UNCHANGED <<cvars, rvars, lastCors, entry, spc, connectCalls, connectOutcome, connectErr,
                   listenCalls, listenPending, listening, sigint, proc,
                   lastHealth, healthServed>>

\* GET /api/health handled by a listening server
Health ==
    /\ ~proc.exited /\ listening
    /\ healthServed < MaxHealth
    /\ lastHealth' = HealthResponse(entry, readyState)
    /\ healthServed' = healthServed + 1
    /\ UNCHANGED <<cvars, rvars, lastCors, entry, spc, readyState, connectCalls, connectOutcome,
                   connectErr, listenCalls, listenPending, listening, sigint,
                   proc>>

\* a request passes the cors middleware of a listening server
CorsRequest ==
    /\ ~proc.exited /\ listening
    /\ \E o \in RequestOrigins, m \in RequestMethods :
          lastCors' = CorsResponse(entry, o, m)
    /\ UNCHANGED <<cvars, rvars, entry, spc, readyState, connectCalls,
                   connectOutcome, connectErr, listenCalls, listenPending,
                   listening, sigint, proc, lastHealth, healthServed>>

\* part_000: process.on('SIGINT', async () => { await mongoose.connection.close(); ...
SigintReceived ==
    /\ ~proc.exited /\ entry = "part_000" /\ sigint = "none"
    /\ sigint' = "closing"
    /\ readyState' = IF readyState = 0 THEN 0 ELSE 3
    /\ UNCHANGED <<cvars, rvars, lastCors, entry, spc, connectCalls, connectOutcome, connectErr,
                   listenCalls, listenPending, listening, proc, lastHealth,
                   healthServed>>

\* part_000: the awaited close() completes
SigintClosed ==
    /\ ~proc.exited /\ entry = "part_000" /\ sigint = "closing"
    /\ sigint' = "closed"
    /\ readyState' = 0
    /\ UNCHANGED <<cvars, rvars, lastCors, entry, spc, connectCalls, connectOutcome, connectErr,
                   listenCalls, listenPending, listening, proc, lastHealth,
                   healthServed>>

\* variant: process.exit(0) without awaiting close()
SigintExitWithoutAwait ==
    /\ ~proc.exited /\ entry = "part_000" /\ sigint = "closing"
    /\ proc' = Exit(0, "sigint")
    /\ UNCHANGED <<cvars, rvars, lastCors, entry, spc, readyState, connectCalls,
                   connectOutcome, connectErr, listenCalls, listenPending,
                   listening, sigint, lastHealth, healthServed>>

\* part_000: console.log(...); process.exit(0)
SigintExit ==
    /\ ~proc.exited /\ entry = "part_000" /\ sigint = "closed"
    /\ proc' = Exit(0, "sigint")
    /\ UNCHANGED <<cvars, rvars, lastCors, entry, spc, readyState, connectCalls, connectOutcome,
                   connectErr, listenCalls, listenPending, listening, sigint,
                   lastHealth, healthServed>>

\* server.js installs no SIGINT handler: the signal's default action ends the process
SigintDefault ==
    /\ ~proc.exited /\ entry = "server.js"
    /\ proc' = Exit(130, "signal")
    /\ UNCHANGED <<cvars, rvars, lastCors, entry, spc, readyState, connectCalls, connectOutcome,
                   connectErr, listenCalls, listenPending, listening, sigint,
                   lastHealth, healthServed>>

-----------------------------------------------------------------------------
(* Browser client: src/frontend/src/utils/api.js *)

(* JavaScript values.  Every value has the same three fields so that any two *)
(* can be compared: t is the typeof-like tag, v the payload of a primitive,  *)
(* props the own properties of an object, in insertion order.                *)
JSV(tag, payload, ps) == [t |-> tag, v |-> payload, props |-> ps]
Undefined == JSV("undefined", "", <<>>)
Null      == JSV("null", "", <<>>)
NaN       == JSV("number", "NaN", <<>>)
Num(n)    == JSV("number", n, <<>>)
Str(x)    == JSV("string", x, <<>>)
Bool(b)   == JSV("boolean", IF b THEN "true" ELSE "false", <<>>)
BigInt(n) == JSV("bigint", n, <<>>)
Obj(ps)   == JSV("object", "", ps)
Prop(key, value) == [k |-> key, val |-> value]

(* JavaScript strings are sequences of lexemes; "" is the empty sequence.    *)
Lex(kind, x) == [tok |-> kind, v |-> x]
Text(x)      == <<Lex("raw", x)>>
EmptyString  == <<>>

\* ToBoolean on a string
Truthy(str) == Len(str) > 0

\* ---- JSON.stringify -------------------------------------------------------
\* result: a string, the value undefined, or a thrown TypeError
Serialized(str) == [kind |-> "string", s |-> str]
SerializedUndefined == [kind |-> "undefined", s |-> <<>>]
SerializeThrows == [kind |-> "throw", s |-> <<>>]

RECURSIVE Stringify(_)
RECURSIVE StringifyProps(_, _, _)

\* the members of an object: properties whose value serializes to undefined
\* are skipped, a throwing value makes the whole call throw
StringifyProps(ps, i, acc) ==
    IF i > Len(ps) THEN Serialized(acc)
    ELSE LET r == Stringify(ps[i].val) IN
         CASE r.kind = "throw" -> SerializeThrows
           [] r.kind = "undefined" -> StringifyProps(ps, i + 1, acc)
           [] OTHER ->
                LET sep == IF Len(acc) = 0 THEN <<>> ELSE <<Lex("punct", ",")>>
                    member == <<Lex("str", ps[i].k), Lex("punct", ":")>> \o r.s
                IN StringifyProps(ps, i + 1, acc \o sep \o member)

Stringify(x) ==
    CASE x.t = "undefined" -> SerializedUndefined
      [] x.t = "null" -> Serialized(<<Lex("lit", "null")>>)
      [] x.t = "boolean" -> Serialized(<<Lex("lit", x.v)>>)
      [] x.t = "number" ->
            IF x.v = "NaN" THEN Serialized(<<Lex("lit", "null")>>)
            ELSE Serialized(<<Lex("num", x.v)>>)
      [] x.t = "string" -> Serialized(<<Lex("str", x.v)>>)
      [] x.t = "bigint" -> SerializeThrows
      [] x.t = "object" ->
            LET m == StringifyProps(x.props, 1, <<>>) IN
            IF m.kind = "throw" THEN SerializeThrows
            ELSE Serialized(<<Lex("punct", "{")>> \o m.s \o <<Lex("punct", "}")>>)

\* ---- JSON.parse -----------------------------------------------------------
ParseOk(value, nxt) == [ok |-> TRUE, val |-> value, next |-> nxt]
ParseFail == [ok |-> FALSE, val |-> Undefined, next |-> 0]

IsPunct(str, i, c) == i <= Len(str) /\ str[i].tok = "punct" /\ str[i].v = c

RECURSIVE ParseValue(_, _)
RECURSIVE ParseMembers(_, _, _)

\* after "{" or ",": string ":" value, then "," (another member) or "}"
ParseMembers(str, i, acc) ==
    IF i + 1 > Len(str) \/ str[i].tok # "str" \/ ~IsPunct(str, i + 1, ":")
    THEN ParseFail
    ELSE LET r == ParseValue(str, i + 2) IN
         IF ~r.ok THEN ParseFail
         ELSE LET ps == Append(acc, Prop(str[i].v, r.val)) IN
              CASE IsPunct(str, r.next, "}") -> ParseOk(Obj(ps), r.next + 1)
                [] IsPunct(str, r.next, ",") -> ParseMembers(str, r.next + 1, ps)
                [] OTHER -> ParseFail

ParseValue(str, i) ==
    IF i > Len(str) THEN ParseFail
    ELSE CASE str[i].tok = "lit" ->
                IF str[i].v = "null" THEN ParseOk(Null, i + 1)
                ELSE ParseOk(Bool(str[i].v = "true"), i + 1)
           [] str[i].tok = "num" -> ParseOk(Num(str[i].v), i + 1)
           [] str[i].tok = "str" -> ParseOk(Str(str[i].v), i + 1)
           [] IsPunct(str, i, "{") ->
                IF IsPunct(str, i + 1, "}") THEN ParseOk(Obj(<<>>), i + 2)
                ELSE ParseMembers(str, i + 1, <<>>)
           [] OTHER -> ParseFail

\* JSON.parse(text): the value, or a SyntaxError
Parse(str) ==
    LET r == ParseValue(str, 1) IN
    IF r.ok /\ r.next = Len(str) + 1
    THEN [kind |-> "value", val |-> r.val]
    ELSE [kind |-> "throw", val |-> Undefined]

\* ---- localStorage ---------------------------------------------------------
StorageKeys == {"token", "user"}

HasItem(st, key) == key \in DOMAIN st
\* getItem: the stored string, or null
GetItem(st, key) ==
    IF HasItem(st, key) THEN [present |-> TRUE, s |-> st[key]]
    ELSE [present |-> FALSE, s |-> EmptyString]
SetItem(st, key, str) ==
    [x \in (DOMAIN st) \cup {key} |-> IF x = key THEN str ELSE st[x]]
RemoveItem(st, key) == [x \in (DOMAIN st) \ {key} |-> st[x]]

\* setItem stores String(value): JSON.stringify's undefined becomes "undefined"
ToStorageString(r) == IF r.kind = "undefined" THEN Text("undefined") ELSE r.s

\* `Bearer ${token}`
Bearer(token) == Text("Bearer ") \o token

\* ---- window.location ------------------------------------------------------
LoginPath == <<"/", "l", "o", "g", "i", "n">>

\* String.prototype.includes
Includes(str, sub) ==
    \E i \in 1..(Len(str) - Len(sub) + 1) : SubSeq(str, i, i + Len(sub) - 1) = sub

Paths == { <<"/">>,
           <<"/", "j">>,
           LoginPath,
           <<"/", "a">> \o LoginPath,
           <<"/", "x", "l", "o", "g", "i", "n">> }

\* ---- request configs ------------------------------------------------------
\* a header of a config: absent, or present with its value
NoHeader == [present |-> FALSE, s |-> EmptyString]
Header(str) == [present |-> TRUE, s |-> str]
\* the part of a request config the interceptors deal with
Config(auth) == [Authorization |-> auth]
NoRequest == Config(NoHeader)

\* ---- errors reaching the response interceptor -----------------------------
\* auth is error.config.headers.Authorization of the request that failed
ApiError(nm, resp, st, req, cfg) ==
    [name |-> nm, hasResponse |-> resp, status |-> st, hasRequest |-> req,
     hasConfig |-> cfg, auth |-> NoHeader]
NoError == ApiError("none", FALSE, 0, FALSE, FALSE)
\* reading a property of undefined
TypeError == ApiError("TypeError", FALSE, 0, FALSE, FALSE)
\* JSON.parse on text that is not JSON
SyntaxError == ApiError("SyntaxError", FALSE, 0, FALSE, FALSE)

Statuses == {400, 401, 403, 404, 500, 503}

\* what axios hands to the error handler: an error response (always with its
\* config), a request without response, or an error raised while setting up
ApiErrors ==
    {ApiError("AxiosError", TRUE, st, TRUE, TRUE) : st \in Statuses}
    \cup {ApiError("AxiosError", FALSE, 0, TRUE, TRUE)}
    \cup {ApiError("Error", FALSE, 0, FALSE, cfg) : cfg \in BOOLEAN}

\* ---- results of one client operation --------------------------------------
Client(st, hd, path) == [storage |-> st, headers |-> hd, pathname |-> path]
Returned(value) == [kind |-> "return", val |-> value, err |-> NoError]
Thrown(e)       == [kind |-> "throw", val |-> Undefined, err |-> e]
Rejected(e)     == [kind |-> "rejected", val |-> Undefined, err |-> e]
Outcome(c, eff, r) == [cs |-> c, effects |-> eff, ret |-> r]

\* variant: the token is compared with null instead of being coerced
IsAuthenticatedNotNull(st) == GetItem(st, "token").present

\* api.js:105-108
IsAuthenticated(st) ==
    LET token == GetItem(st, "token") IN token.present /\ Truthy(token.s)

\* api.js:111-119
GetCurrentUser(st) ==
    LET userStr == GetItem(st, "user") IN
    IF userStr.present /\ Truthy(userStr.s)
    THEN LET r == Parse(userStr.s) IN
         IF r.kind = "throw" THEN Null ELSE r.val
    ELSE Null

\* variant: no try/catch around JSON.parse
GetCurrentUserRunNoCatch(cs) ==
    LET userStr == GetItem(cs.storage, "user") IN
    IF userStr.present /\ Truthy(userStr.s)
    THEN LET r == Parse(userStr.s) IN
         IF r.kind = "throw" THEN Outcome(cs, <<>>, Thrown(SyntaxError))
         ELSE Outcome(cs, <<>>, Returned(r.val))
    ELSE Outcome(cs, <<>>, Returned(Null))

\* api.js:111-119 as one call: the catch block logs and returns null
GetCurrentUserRun(cs) ==
    LET userStr == GetItem(cs.storage, "user") IN
    IF userStr.present /\ Truthy(userStr.s)
    THEN LET r == Parse(userStr.s) IN
         IF r.kind = "throw" THEN Outcome(cs, <<"log">>, Returned(Null))
         ELSE Outcome(cs, <<>>, Returned(r.val))
    ELSE Outcome(cs, <<>>, Returned(Null))

\* variant: the interceptor leaves the header to the client's defaults
InterceptRequestFromDefaults(cs) ==
    Config(GetItem(cs.headers, "Authorization"))

\* api.js:18-27, the request interceptor: axios has merged the default
\* headers into config.headers; a truthy stored token overwrites Authorization
InterceptRequest(cs) ==
    LET token == GetItem(cs.storage, "token") IN
    IF token.present /\ Truthy(token.s)
    THEN Config(Header(Bearer(token.s)))
    ELSE Config(GetItem(cs.headers, "Authorization"))

\* variant: the user is stored without JSON.stringify, i.e. as String(user)
SetAuthRunUnserialized(cs, token, user) ==
    Outcome(Client(SetItem(SetItem(cs.storage, "token", token), "user",
                           Text(user.t)),
                   SetItem(cs.headers, "Authorization", Bearer(token)),
                   cs.pathname),
            <<"setItem:token", "setItem:user", "set:Authorization">>,
            Returned(Undefined))

\* api.js:122-126
SetAuthRun(cs, token, user) ==
    LET st1 == SetItem(cs.storage, "token", token)
        r   == Stringify(user)
    IN IF r.kind = "throw"
       THEN Outcome(Client(st1, cs.headers, cs.pathname),
                    <<"setItem:token">>, Thrown(TypeError))
       ELSE Outcome(Client(SetItem(st1, "user", ToStorageString(r)),
                           SetItem(cs.headers, "Authorization", Bearer(token)),
                           cs.pathname),
                    <<"setItem:token", "setItem:user", "set:Authorization">>,
                    Returned(Undefined))

\* variant: the default header is left in place
ClearAuthRunKeepsHeader(cs) ==
    Outcome(Client(RemoveItem(RemoveItem(cs.storage, "token"), "user"),
                   cs.headers, cs.pathname),
            <<"removeItem:token", "removeItem:user">>,
            Returned(Undefined))

\* api.js:129-133
ClearAuthRun(cs) ==
    Outcome(Client(RemoveItem(RemoveItem(cs.storage, "token"), "user"),
                   RemoveItem(cs.headers, "Authorization"),
                   cs.pathname),
            <<"removeItem:token", "removeItem:user", "delete:Authorization">>,
            Returned(Undefined))

\* variant: the redirect is not guarded by the pathname test
UnauthorizedAlwaysRedirects(cs) ==
    [cs |-> Client(RemoveItem(RemoveItem(cs.storage, "token"), "user"),
                   RemoveItem(cs.headers, "Authorization"), LoginPath),
     effects |-> <<"removeItem:token", "removeItem:user",
                   "delete:Authorization", "navigate:/login">>]

\* api.js:59-69, case 401
Unauthorized(cs) ==
    LET cleared == <<"removeItem:token", "removeItem:user", "delete:Authorization">>
        st == RemoveItem(RemoveItem(cs.storage, "token"), "user")
        hd == RemoveItem(cs.headers, "Authorization")
    IN IF ~Includes(cs.pathname, LoginPath)
       THEN [cs |-> Client(st, hd, LoginPath),
             effects |-> cleared \o <<"navigate:/login">>]
       ELSE [cs |-> Client(st, hd, cs.pathname), effects |-> cleared]

\* variant: the 401 branch returns instead of falling through to the reject
OnResponseErrorSwallows401(cs, error) ==
    IF error.hasResponse /\ error.status = 401
    THEN LET u == Unauthorized(cs) IN
         Outcome(u.cs, <<"log">> \o u.effects, Returned(Undefined))
    ELSE Outcome(cs, <<"log", "log">>, Rejected(error))

\* variant: status 403 is handled like 401
OnResponseErrorForbiddenLogsOut(cs, error) ==
    IF error.hasResponse /\ error.status \in {401, 403}
    THEN LET u == Unauthorized(cs) IN
         Outcome(u.cs, <<"log">> \o u.effects, Rejected(error))
    ELSE Outcome(cs, <<"log", "log">>, Rejected(error))

\* variant: a 401 clears the credentials only when the failed request carried
\* the token that is stored now
OnResponseErrorOwnTokenOnly(cs, error) ==
    IF /\ error.hasResponse /\ error.status = 401
       /\ HasItem(cs.storage, "token")
       /\ error.auth = Header(Bearer(cs.storage["token"]))
    THEN LET u == Unauthorized(cs) IN
         Outcome(u.cs, <<"log">> \o u.effects, Rejected(error))
    ELSE Outcome(cs, <<"log", "log">>, Rejected(error))

\* api.js:43-101, the error handler of the response interceptor
OnResponseError(cs, error) ==
    IF error.hasResponse
    THEN CASE error.status = 401 ->
                LET u == Unauthorized(cs) IN
                Outcome(u.cs, <<"log">> \o u.effects, Rejected(error))
           [] error.status = 404 /\ ~error.hasConfig ->
                Outcome(cs, <<"log">>, Thrown(TypeError))
           [] OTHER -> Outcome(cs, <<"log", "log">>, Rejected(error))
    ELSE Outcome(cs, <<"log", "log">>, Rejected(error))

\* ---- client state machine -------------------------------------------------
EmptyMap == [x \in {} |-> EmptyString]

Tokens == {EmptyString, Text("t1"), Text("t2")}

Users ==
    { Undefined, Null, NaN, Num("1"), Str(""), BigInt("1"),
      Obj(<<Prop("id", Num("1")), Prop("name", Str("a"))>>),
      Obj(<<Prop("x", Undefined)>>),
      Obj(<<Prop("profile", Obj(<<Prop("role", Str("a"))>>))>>) }

NoArgs == [token |-> EmptyString, user |-> Undefined, error |-> NoError]

Now == Client(storage, headers, pathname)

\* one finished operation: its name, arguments, the state it started from,
\* its side effects in order and its result
Done(name, a, out) ==
    [op |-> name, args |-> a, before |-> Now, effects |-> out.effects,
     ret |-> out.ret, sent |-> NoRequest]

InitClient ==
    /\ storage = EmptyMap
    /\ headers = EmptyMap
    /\ pathname \in Paths
    /\ hist = <<>>
    /\ inflight = {}

\* setAuth(token, user)
SetAuth ==
    \E t \in Tokens, u \in Users :
        LET out == SetAuthRun(Now, t, u) IN
        /\ storage' = out.cs.storage
        /\ headers' = out.cs.headers
        /\ pathname' = out.cs.pathname
        /\ hist' = <<Done("setAuth", [NoArgs EXCEPT !.token = t, !.user = u], out)>>
        /\ UNCHANGED <<inflight, svars, rvars>>

\* clearAuth()
ClearAuth ==
    LET out == ClearAuthRun(Now) IN
    /\ storage' = out.cs.storage
    /\ headers' = out.cs.headers
    /\ pathname' = out.cs.pathname
    /\ hist' = <<Done("clearAuth", NoArgs, out)>>
    /\ UNCHANGED <<inflight, svars, rvars>>

\* isAuthenticated()
CallIsAuthenticated ==
    LET out == Outcome(Now, <<>>, Returned(Bool(IsAuthenticated(storage)))) IN
    /\ hist' = <<Done("isAuthenticated", NoArgs, out)>>
    /\ UNCHANGED <<storage, headers, pathname, inflight, svars, rvars>>

\* getCurrentUser()
CallGetCurrentUser ==
    LET out == GetCurrentUserRun(Now) IN
    /\ hist' = <<Done("getCurrentUser", NoArgs, out)>>
    /\ UNCHANGED <<storage, headers, pathname, inflight, svars, rvars>>

\* api.request(...): the request interceptor runs and the request is sent
SendRequest ==
    /\ Cardinality(inflight) < MaxInFlight
    /\ LET cfg == InterceptRequest(Now)
           out == Outcome(Now, <<"getItem:token", "log", "send">>, Returned(Undefined))
       IN /\ inflight' = inflight \cup {cfg}
          /\ hist' = <<[Done("request", NoArgs, out) EXCEPT !.sent = cfg]>>
    /\ UNCHANGED <<storage, headers, pathname, svars, rvars>>

\* a failure reaches the error handler of the response interceptor (the
\* request it belongs to is not followed)
ResponseError ==
    \E e \in ApiErrors :
        LET out == OnResponseError(Now, e) IN
        /\ storage' = out.cs.storage
        /\ headers' = out.cs.headers
        /\ pathname' = out.cs.pathname
        /\ hist' = <<Done("responseError", [NoArgs EXCEPT !.error = e], out)>>
        /\ UNCHANGED <<inflight, svars, rvars>>

\* a request in flight fails, with an error response or with no response:
\* the error handed to the response interceptor carries that request's config
RequestFailed ==
    \E r \in inflight :
    \E e \in {x \in ApiErrors : x.hasRequest} :
        LET error == [e EXCEPT !.auth = r.Authorization]
            out == OnResponseError(Now, error)
        IN /\ storage' = out.cs.storage
           /\ headers' = out.cs.headers
           /\ pathname' = out.cs.pathname
           /\ inflight' = inflight \ {r}
           /\ hist' = <<Done("responseError", [NoArgs EXCEPT !.error = error], out)>>
           /\ UNCHANGED <<svars, rvars>>

\* the user or the router moves to another page
RouteChange ==
    \E p \in Paths \ {pathname} :
        LET out == Outcome(Client(storage, headers, p), <<>>, Returned(Undefined)) IN
        /\ pathname' = p
        /\ hist' = <<Done("navigate", NoArgs, out)>>
        /\ UNCHANGED <<storage, headers, inflight, svars, rvars>>

\* the page is loaded again: the module is evaluated anew (api.js:9-15), so
\* the defaults of the axios instance are fresh and nothing is in flight;
\* localStorage and the location persist
PageLoad ==
    LET out == Outcome(Client(storage, EmptyMap, pathname), <<>>, Returned(Undefined)) IN
    /\ hist # <<>>
    /\ headers' = EmptyMap
    /\ inflight' = {}
    /\ hist' = <<Done("load", NoArgs, out)>>
    /\ UNCHANGED <<storage, pathname, svars, rvars>>

\* what other scripts or an earlier version of the page may have left under
\* a key of localStorage
StoredStrings ==
    { EmptyString,
      Text("undefined"),
      Text("t1"),
      <<Lex("punct", "{")>>,
      <<Lex("punct", "}")>>,
      <<Lex("punct", "{"), Lex("str", "id")>>,
      <<Lex("punct", "{"), Lex("str", "id"), Lex("punct", ":"), Lex("num", "1")>>,
      <<Lex("punct", "{"), Lex("str", "id"), Lex("punct", ":"), Lex("num", "1"),
        Lex("punct", ","), Lex("punct", "}")>>,
      <<Lex("num", "1"), Lex("num", "2")>>,
      <<Lex("lit", "null")>>,
      <<Lex("lit", "true")>>,
      <<Lex("num", "1")>>,
      <<Lex("str", "a")>>,
      <<Lex("punct", "{"), Lex("punct", "}")>>,
      <<Lex("punct", "{"), Lex("str", "id"), Lex("punct", ":"), Lex("num", "1"),
        Lex("punct", "}")>> }

\* any content of localStorage under the two keys
InitStorage ==
    /\ \E ks \in SUBSET StorageKeys : storage \in [ks -> StoredStrings]
    /\ headers = EmptyMap
    /\ pathname = <<"/">>
    /\ hist = <<>>
    /\ inflight = {}

NextClient ==
    \/ SetAuth
    \/ ClearAuth
    \/ CallIsAuthenticated
    \/ CallGetCurrentUser
    \/ ResponseError
    \/ RouteChange

\* requests followed from the interceptor to their failure, across changes
\* of the credentials and reloads of the page
NextSession ==
    \/ SetAuth
    \/ ClearAuth
    \/ SendRequest
    \/ RequestFailed
    \/ PageLoad

\* the two readers of localStorage
NextStorage ==
    \/ CallIsAuthenticated
    \/ CallGetCurrentUser

-----------------------------------------------------------------------------
(* Retry helper: src/frontend/src/utils/api.js:179-193 *)

Delays == {100, 1000}

\* apiCall either fails on every invocation, or fails k times and then succeeds
Ops == {[always |-> TRUE, k |-> 0]} \cup {[always |-> FALSE, k |-> n] : n \in 0..MaxFailures}

\* does the n-th invocation of apiCall reject?
OpFails(o, n) == o.always \/ n <= o.k

Event(what, num) == [ev |-> what, n |-> num]

Pending == [kind |-> "pending", val |-> "none", err |-> 0]
\* the promise resolves with apiCall's value, or with undefined
Resolved(value) == [kind |-> "resolved", val |-> value, err |-> 0]
\* the promise rejects with the error of the n-th invocation
RejectedWith(n) == [kind |-> "rejected", val |-> "none", err |-> n]

\* variant: a do-while loop, the first attempt is made whatever the bound
LoopContinuesAtLeastOnce(a, m) == a = 1 \/ a <= m

\* api.js:180  attempt <= maxRetries
LoopContinues(a, m) == a <= m

\* variant: gives up one attempt early
LastAttemptEarly(a, m) == a = m - 1

\* api.js:184  attempt === maxRetries
LastAttempt(a, m) == a = m

\* variant: exponential backoff, as the inline comment announces
BackoffExponential(d, a) == d * 2 ^ (a - 1)

\* api.js:189  delay * attempt
Backoff(d, a) == d * a

InitRetry ==
    /\ rpc = "start"
    /\ op \in Ops
    /\ maxRetries \in -1..MaxRetries
    /\ delay \in Delays
    /\ attempt = 0
    /\ calls = 0
    /\ rlog = <<>>
    /\ elapsed = 0
    /\ result = Pending

\* let attempt = 1
RetryEnter ==
    /\ rpc = "start"
    /\ attempt' = 1
    /\ rpc' = "test"
    /\ UNCHANGED <<svars, cvars, op, maxRetries, delay, calls, rlog, elapsed, result>>

\* the loop condition holds: apiCall() is invoked and awaited
RetryInvoke ==
    /\ rpc = "test" /\ LoopContinues(attempt, maxRetries)
    /\ calls' = calls + 1
    /\ rlog' = Append(rlog, Event("call", calls + 1))
    /\ rpc' = "call"
    /\ UNCHANGED <<svars, cvars, op, maxRetries, delay, attempt, elapsed, result>>

\* the loop condition fails: the function ends without a return statement
RetryFallThrough ==
    /\ rpc = "test" /\ ~LoopContinues(attempt, maxRetries)
    /\ result' = Resolved("undefined")
    /\ rpc' = "done"
    /\ UNCHANGED <<svars, cvars, op, maxRetries, delay, attempt, calls, rlog, elapsed>>

\* return await apiCall()
RetrySuccess ==
    /\ rpc = "call" /\ ~OpFails(op, calls)
    /\ rlog' = Append(rlog, Event("ok", calls))
    /\ result' = Resolved("value")
    /\ rpc' = "done"
    /\ UNCHANGED <<svars, cvars, op, maxRetries, delay, attempt, calls, elapsed>>

\* catch (error) { if (attempt === maxRetries) throw error;
RetryGiveUp ==
    /\ rpc = "call" /\ OpFails(op, calls)
    /\ LastAttempt(attempt, maxRetries)
    /\ rlog' = Append(rlog, Event("fail", calls))
    /\ result' = RejectedWith(calls)
    /\ rpc' = "done"
    /\ UNCHANGED <<svars, cvars, op, maxRetries, delay, attempt, calls, elapsed>>

\* catch (error) { ... await new Promise(resolve => setTimeout(resolve, delay * attempt))
RetryBackoff ==
    /\ rpc = "call" /\ OpFails(op, calls)
    /\ ~LastAttempt(attempt, maxRetries)
    /\ rlog' = rlog \o <<Event("fail", calls), Event("delay", Backoff(delay, attempt))>>
    /\ rpc' = "sleep"
    /\ UNCHANGED <<svars, cvars, op, maxRetries, delay, attempt, calls, elapsed, result>>

\* the timer fires; console.log; attempt++
RetryTimer ==
    /\ rpc = "sleep"
    /\ elapsed' = elapsed + rlog[Len(rlog)].n
    /\ attempt' = attempt + 1
    /\ rpc' = "test"
    /\ UNCHANGED <<svars, cvars, op, maxRetries, delay, calls, rlog, result>>

NextRetry ==
    \/ RetryEnter
    \/ RetryInvoke
    \/ RetryFallThrough
    \/ RetrySuccess
    \/ RetryGiveUp
    \/ RetryBackoff
    \/ RetryTimer

RetryIdle ==
    /\ InitRetry
    /\ op = [always |-> FALSE, k |-> 0]
    /\ maxRetries = 1
    /\ delay = 1000

-----------------------------------------------------------------------------
NextServer ==
    \/ StartServer
    \/ ConnectDBResolved
    \/ ConnectDBRejected
    \/ ModuleConnect
    \/ ModuleConnectResolved
    \/ ModuleConnectRejected
    \/ AppListen
    \/ ListenThrows
    \/ Bound
    \/ BindError
    \/ DbDisconnected
    \/ DbReconnected
    \/ Health
    \/ CorsRequest
    \/ SigintReceived
    \/ SigintClosed
    \/ SigintExit
    \/ SigintDefault


\* the specifications: each moves one component and holds the others still
ServerIdle == InitServer /\ entry = "part_000"
ClientIdle == InitClient /\ pathname = <<"/">>

InitSpecServer == InitServer /\ ClientIdle /\ RetryIdle
InitSpecClient == InitClient /\ ServerIdle /\ RetryIdle
InitSpecRetry == InitRetry /\ ServerIdle /\ ClientIdle
InitSpecSession == ClientIdle /\ ServerIdle /\ RetryIdle
InitSpecStorage == InitStorage /\ ServerIdle /\ RetryIdle
Init == InitServer /\ InitClient /\ InitRetry

SpecServer == InitSpecServer /\ [][NextServer]_vars

\* the close() awaited by the SIGINT handler settles and the handler's
\* continuation is run by the event loop
FairSpecServer == SpecServer /\ WF_vars(SigintClosed) /\ WF_vars(SigintExit)

SpecClient == InitSpecClient /\ [][NextClient]_vars

\* requests, credentials and page loads
SpecSession == InitSpecSession /\ [][NextSession]_vars

\* the readers applied to arbitrary storage content
SpecStorage == InitSpecStorage /\ [][NextStorage]_vars

SpecRetry == InitSpecRetry /\ [][NextRetry]_vars

\* every awaited promise of apiWithRetry settles: apiCall rejects or resolves,
\* the timer fires, and the continuation is run by the event loop
FairSpecRetry == SpecRetry /\ WF_vars(NextRetry)

Next == NextServer \/ NextClient \/ NextSession \/ NextRetry

Spec == Init /\ [][Next]_vars

-----------------------------------------------------------------------------
(* Claims about the backend bootstrap, checked under SpecServer *)

\* C1: a failed database connect during bootstrap never terminates the
\* process, and the process exits with code 1 only because of an exception
\* raised in the listen phase.  (Violated by src/backend/server.js, whose
\* .catch on mongoose.connect calls process.exit(1).)
C1_DegradedStart ==
    /\ connectOutcome = "rejected" => ~(proc.exited /\ proc.cause = "dbfail")
    /\ (proc.exited /\ proc.code = 1) => proc.cause = "listen"

\* C2: every answer of GET /api/health has status 200 and a database field
\* that is "Connected" exactly when readyState was 1 when the request was
\* handled, "Disconnected" otherwise.  (Violated by src/backend/server.js,
\* whose health body has no database field.)
C2_HealthReadsState ==
    lastHealth # NoHealth =>
        /\ lastHealth.status = 200
        /\ lastHealth.database = DatabaseField(lastHealth.seen)

-----------------------------------------------------------------------------
(* Claims about the browser client, checked under SpecClient *)

Count(seq, x) == Cardinality({i \in DOMAIN seq : seq[i] = x})

LastOp(name) == hist # <<>> /\ hist[1].op = name

Handled401 ==
    /\ LastOp("responseError")
    /\ hist[1].args.error.hasResponse
    /\ hist[1].args.error.status = 401

\* C3: a 401 handled by the response interceptor removes token, user and the
\* default Authorization header exactly once each, and navigates to /login
\* exactly once when the pathname did not contain "/login", never otherwise.
C3_Unauthorized ==
    Handled401 =>
        LET e == hist[1].effects IN
        /\ Count(e, "removeItem:token") = 1
        /\ Count(e, "removeItem:user") = 1
        /\ Count(e, "delete:Authorization") = 1
        /\ ~HasItem(storage, "token")
        /\ ~HasItem(storage, "user")
        /\ ~HasItem(headers, "Authorization")
        /\ Count(e, "navigate:/login") =
              (IF Includes(hist[1].before.pathname, LoginPath) THEN 0 ELSE 1)

\* a 401 arrived away from the login page while credentials were stored
C3_Witness ==
    /\ Handled401
    /\ ~Includes(hist[1].before.pathname, LoginPath)
    /\ HasItem(hist[1].before.storage, "token")
    /\ HasItem(hist[1].before.headers, "Authorization")
    /\ Count(hist[1].effects, "navigate:/login") = 1

\* C4: whatever failure reaches the response interceptor, the handler ends in
\* a rejection that carries the very error it was given.
C4_Reraises ==
    LastOp("responseError") =>
        /\ hist[1].ret.kind = "rejected"
        /\ hist[1].ret.err = hist[1].args.error

\* a 404 went through the branch that reads error.config.url
C4_Witness ==
    /\ LastOp("responseError")
    /\ hist[1].args.error.status = 404
    /\ hist[1].ret = Rejected(hist[1].args.error)

\* C7 (as stated): isAuthenticated() returns false iff storage has no token
\* key, and writes nothing.
C7_FalseIffNoKey ==
    LastOp("isAuthenticated") =>
        /\ hist[1].ret.val = Bool(FALSE) <=> ~HasItem(hist[1].before.storage, "token")
        /\ hist[1].effects = <<>>
        /\ storage = hist[1].before.storage

\* C7 (amended): isAuthenticated() returns false iff storage has no token key
\* or the stored token is the empty string, and writes nothing.
C7_FalseIffNoKeyOrEmpty ==
    LastOp("isAuthenticated") =>
        /\ hist[1].ret.val = Bool(FALSE) <=>
              \/ ~HasItem(hist[1].before.storage, "token")
              \/ hist[1].before.storage["token"] = EmptyString
        /\ hist[1].effects = <<>>
        /\ storage = hist[1].before.storage

\* isAuthenticated() ran on a storage whose token key holds ""
C7_Witness ==
    /\ LastOp("isAuthenticated")
    /\ HasItem(hist[1].before.storage, "token")
    /\ hist[1].before.storage["token"] = EmptyString
    /\ hist[1].ret.val = Bool(FALSE)

RECURSIVE IsJSONValue(_)
\* values that JSON text represents: null, booleans, finite numbers, strings
\* and objects whose properties are such values
IsJSONValue(x) ==
    CASE x.t \in {"null", "boolean", "string"} -> TRUE
      [] x.t = "number" -> x.v # "NaN"
      [] x.t = "object" -> \A i \in DOMAIN x.props : IsJSONValue(x.props[i].val)
      [] OTHER -> FALSE

\* C8 (as stated): right after setAuth(t, u), getCurrentUser() is deep-equal
\* to u, for every u.
C8_RoundTrip ==
    LastOp("setAuth") => GetCurrentUser(storage) = hist[1].args.user

\* C8 (amended): right after setAuth(t, u) with u a value JSON represents,
\* setAuth has returned and getCurrentUser() is deep-equal to u.
C8_RoundTripJSON ==
    (LastOp("setAuth") /\ IsJSONValue(hist[1].args.user)) =>
        /\ hist[1].ret.kind = "return"
        /\ GetCurrentUser(storage) = hist[1].args.user

\* setAuth stored a nested user object and getCurrentUser gives it back
C8_Witness ==
    /\ LastOp("setAuth")
    /\ hist[1].args.user.t = "object"
    /\ Len(hist[1].args.user.props) = 1
    /\ hist[1].args.user.props[1].val.t = "object"
    /\ GetCurrentUser(storage) = hist[1].args.user

\* C9: after clearAuth() isAuthenticated() is false, getCurrentUser() is
\* absent and the default Authorization header is absent; another clearAuth()
\* changes nothing.
C9_ClearAuth ==
    LastOp("clearAuth") =>
        /\ ~IsAuthenticated(storage)
        /\ GetCurrentUser(storage) = Null
        /\ ~HasItem(headers, "Authorization")
        /\ ClearAuthRun(Now).cs = Now

\* clearAuth() ran on the state a completed setAuth had left
C9_Witness ==
    /\ LastOp("clearAuth")
    /\ HasItem(hist[1].before.storage, "token")
    /\ HasItem(hist[1].before.storage, "user")
    /\ HasItem(hist[1].before.headers, "Authorization")
    /\ storage = EmptyMap

\* C10: the token key and the user key are both present or both absent, and
\* without a token isAuthenticated() is false.  (Violated by setAuth, which
\* writes the token before JSON.stringify(user) can throw.)
C10_CredentialPair ==
    /\ HasItem(storage, "token") <=> HasItem(storage, "user")
    /\ ~HasItem(storage, "token") => ~IsAuthenticated(storage)

-----------------------------------------------------------------------------
(* Claims about apiWithRetry, checked under SpecRetry / FairSpecRetry *)

Delaying == {i \in DOMAIN rlog : rlog[i].ev = "delay"}

\* C5 (as stated): with an apiCall that always fails, a finished call has
\* invoked apiCall exactly maxRetries times, awaited no delay after the final
\* failure and rejected with the error of the last invocation.
C5_AnyBound ==
    (op.always /\ rpc = "done") =>
        /\ calls = maxRetries
        /\ result = RejectedWith(calls)
        /\ rlog[Len(rlog)] = Event("fail", calls)

\* C5 (amended): with an apiCall that always fails and an integer
\* maxRetries >= 1, the call ends; apiCall is invoked maxRetries times and
\* never more, the last event is the final failure (no delay follows it), and
\* the promise rejects with the error of the last invocation.
C5_AlwaysFailing ==
    /\ [](op.always /\ maxRetries >= 1 => calls <= maxRetries)
    /\ []((op.always /\ maxRetries >= 1 /\ rpc = "done") =>
            /\ calls = maxRetries
            /\ result = RejectedWith(maxRetries)
            /\ rlog[Len(rlog)] = Event("fail", maxRetries)
            /\ Cardinality(Delaying) = maxRetries - 1)
    /\ (op.always /\ maxRetries >= 1) ~> (rpc = "done")

\* three attempts, three failures, rejected with the third error
C5_Witness ==
    /\ rpc = "done" /\ op.always /\ maxRetries = 3
    /\ calls = 3
    /\ result = RejectedWith(3)

C19_NonPositiveBound ==
    /\ maxRetries <= 0 =>
          /\ calls = 0
          /\ rlog = <<>>
          /\ elapsed = 0
          /\ rpc = "done" => result = Resolved("undefined")
          /\ result.kind # "rejected"
    /\ calls >= 1 => maxRetries >= 1

\* apiWithRetry(op, 0, delay) with a failing op has finished
C19_Witness ==
    /\ rpc = "done" /\ maxRetries = 0 /\ op.always
    /\ calls = 0
    /\ result = Resolved("undefined")

-----------------------------------------------------------------------------
(* Further claims about the backend, checked under SpecServer / FairSpecServer *)

\* the origins of the deployments the allow-list is written for
DeploymentOrigins ==
    { "http://localhost:3000",
      "http://localhost:5173",
      "https://mern-final-project-atsienoclaire.vercel.app",
      "https://mern-final-project-atsienoclaire-2.onrender.com" }

\* C12: a request from the local dev hosts, the Vercel frontend or the Render
\* origin has its origin echoed back (with the configured methods on a
\* preflight); an origin outside the list is never echoed back.  (Violated by
\* src/backend/server.js, whose Vercel entry ends in "/" and so never equals
\* an Origin header.)
C12_AllowList ==
    lastCors # NoCors =>
        /\ lastCors.origin \in DeploymentOrigins =>
              /\ lastCors.allowOrigin = lastCors.origin
              /\ lastCors.method = "OPTIONS" => lastCors.allowMethods = AllowedMethods
        /\ lastCors.origin \notin AllowedOrigins(entry) =>
              lastCors.allowOrigin # lastCors.origin \/ lastCors.origin = ""

\* C13: app.listen is invoked only once the connect attempt has settled,
\* never while it is pending, and mongoose.connect is called exactly once.
\* (Violated by src/backend/server.js, which does not await the connect.)
C13_ConnectThenListen ==
    /\ connectCalls <= 1
    /\ listenCalls > 0 =>
          /\ connectCalls = 1
          /\ listenPending \in {"resolved", "rejected"}
    /\ listening => listenPending \in {"resolved", "rejected"}

-----------------------------------------------------------------------------
(* Further claims about the browser client *)

\* C11 (SpecStorage): whatever localStorage holds, getCurrentUser() returns
\* and does not throw; it returns null when the user key is missing or its
\* string is not valid JSON, and it leaves storage unchanged.
C11_NeverThrows ==
    LastOp("getCurrentUser") =>
        /\ hist[1].ret.kind = "return"
        /\ ~HasItem(hist[1].before.storage, "user") => hist[1].ret.val = Null
        /\ (/\ HasItem(hist[1].before.storage, "user")
            /\ Parse(hist[1].before.storage["user"]).kind = "throw")
              => hist[1].ret.val = Null
        /\ storage = hist[1].before.storage

\* getCurrentUser() ran on a user key holding the text of an unclosed object
C11_Witness ==
    /\ LastOp("getCurrentUser")
    /\ HasItem(hist[1].before.storage, "user")
    /\ hist[1].before.storage["user"] = <<Lex("punct", "{"), Lex("str", "id")>>
    /\ hist[1].ret = Returned(Null)
    /\ storage = hist[1].before.storage

\* C14 (as stated): a request sent while the token key is in storage carries
\* Authorization: Bearer <token> with the token read at interception time;
\* the interceptor sends once and writes neither storage nor the defaults.
C14_BearerWhenPresent ==
    LastOp("request") =>
        /\ HasItem(storage, "token") =>
              hist[1].sent.Authorization = Header(Bearer(storage["token"]))
        /\ Count(hist[1].effects, "send") = 1
        /\ Now = hist[1].before

\* C14 (amended): a request sent while storage holds a non-empty token
\* carries Authorization: Bearer <token> with the token read at interception
\* time; the interceptor sends once and writes neither storage nor the
\* defaults.
C14_BearerWhenNonEmpty ==
    LastOp("request") =>
        /\ (HasItem(storage, "token") /\ storage["token"] # EmptyString) =>
              hist[1].sent.Authorization = Header(Bearer(storage["token"]))
        /\ Count(hist[1].effects, "send") = 1
        /\ hist[1].sent \in inflight
        /\ Now = hist[1].before

\* a request sent while the defaults hold no header (as after a reload)
\* carries the stored token t2
C14_Witness ==
    /\ LastOp("request")
    /\ HasItem(storage, "token") /\ storage["token"] = Text("t2")
    /\ HasItem(storage, "user")
    /\ ~HasItem(headers, "Authorization")
    /\ hist[1].sent = Config(Header(Bearer(Text("t2"))))

\* C15: a failure that is not a 401 response (another status, no response,
\* a request-setup error) leaves token, user, default Authorization header and
\* location as they were.
C15_Frame ==
    (LastOp("responseError") /\ ~Handled401) =>
        /\ Now = hist[1].before
        /\ \A i \in DOMAIN hist[1].effects : hist[1].effects[i] = "log"

\* a 403 arrived while credentials were stored and left them alone
C15_Witness ==
    /\ LastOp("responseError")
    /\ hist[1].args.error.hasResponse /\ hist[1].args.error.status = 403
    /\ HasItem(storage, "token") /\ HasItem(storage, "user")
    /\ HasItem(headers, "Authorization")
    /\ Now = hist[1].before

\* a 401 whose request did not carry the token stored when it arrives
Stale401 ==
    /\ Handled401
    /\ HasItem(hist[1].before.storage, "token")
    /\ hist[1].args.error.auth # Header(Bearer(hist[1].before.storage["token"]))

\* C17: a 401 for a request sent under another token than the stored one
\* still removes token, user and default header, and moves to /login unless
\* the pathname contains "/login".
C17_StaleUnauthorized ==
    Stale401 =>
        /\ ~HasItem(storage, "token")
        /\ ~HasItem(storage, "user")
        /\ ~HasItem(headers, "Authorization")
        /\ pathname = (IF Includes(hist[1].before.pathname, LoginPath)
                       THEN hist[1].before.pathname ELSE LoginPath)

\* the request went out under t1, setAuth(t2, u2) ran, then the 401 arrived
C17_Witness ==
    /\ Stale401
    /\ hist[1].args.error.auth = Header(Bearer(Text("t1")))
    /\ hist[1].before.storage["token"] = Text("t2")
    /\ HasItem(hist[1].before.storage, "user")
    /\ HasItem(hist[1].before.headers, "Authorization")
    /\ hist[1].before.headers["Authorization"] = Bearer(Text("t2"))
    /\ hist[1].before.pathname = <<"/">>
    /\ storage = EmptyMap /\ headers = EmptyMap /\ pathname = LoginPath

\* C18: the default Authorization header is present iff the token key is in
\* storage, and then it is "Bearer " followed by the stored token.  (Violated
\* by setAuth, which writes the token before JSON.stringify(user) can throw
\* and then never sets the header: see C10.)
C18_HeaderAgreesWithStorage ==
    /\ HasItem(headers, "Authorization") <=> HasItem(storage, "token")
    /\ (HasItem(headers, "Authorization") /\ HasItem(storage, "token")) =>
          headers["Authorization"] = Bearer(storage["token"])

=============================================================================
